---- MODULE Spec2Model ----
(***************************************************************************)
(* xylositemonitor.py as a state machine.  One run of the script: the      *)
(* first pass over the configured sites, the settle wait, the retry pass,  *)
(* the sort, the totals and the report.  The network is the environment:   *)
(* every probe draws what the certificate fetch, curl and the response     *)
(* give from a finite set.  Strings that the code searches or compares     *)
(* character by character are sequences of one-character strings.          *)
(***************************************************************************)
EXTENDS Integers, Sequences, FiniteSets, TLC

VARIABLES
    sites,              \* the loaded sites file (line 63)
    mailto,             \* --mailto given and not blank (lines 31-36)
    emailonlyfail,      \* --email-only-on-fail (line 28)
    pc,                 \* position of the script
    pass,               \* "first": line 378, "retry": line 385
    i,                  \* index of the list comprehension at 378 / 385
    cur,                \* index in sites of the site test_site is running
    u, t, p, v,         \* loop indices of test_site: urls, tests, protocols, ipver
    buildme,            \* test_site's result under construction
    siteresults,        \* line 378, reassigned at line 385
    newresults,         \* the list the comprehension at line 385 is building
    restest_total,      \* line 381
    siteresultssorted,  \* line 388
    success_total,      \* line 390
    fail_total,         \* line 391
    mails,              \* subjects handed to send_mail, in order
    printed,            \* what went to the console: "none", "config error", "summary"
    slept,              \* history: number of time.sleep(10) calls
    runs,               \* history: test_site calls per configured site
    reran,              \* history: per slot, the test_site calls check_result made
    firstpass,          \* history: siteresults as line 378 left it
    runlog,             \* history: outcomes perform_test returned in the current test_site call
    lastlog,            \* history: per slot, the runlog of its latest completed test_site call
    certchecks,         \* history: prefixes of the probes that fetched a certificate
    fatal,              \* history: the probe or check that ended the run early
    hlines,             \* the header lines of one response, in order
    hpos,               \* how many of them header_function has been given
    hprev,              \* the header map before the latest of them
    hmap,               \* headers: the map header_function fills (line 189)
    hstate,             \* "idle", "receiving", "aborted" once the callback raised, "done"
    probe,              \* the arguments and the response of one perform_test call
    verdict             \* how that call ended

vars == <<sites, mailto, emailonlyfail, pc, pass, i, cur, u, t, p, v, buildme,
          siteresults, newresults, restest_total, siteresultssorted,
          success_total, fail_total, mails, printed, slept, runs, reran,
          firstpass, runlog, lastlog, certchecks, fatal,
          hlines, hpos, hprev, hmap, hstate, probe, verdict>>

(***************************************************************************)
(* Bounds of the model.                                                    *)
(***************************************************************************)
MaxSites == 2
MaxSortLen == 4
MaxFail == 2

(***************************************************************************)
(* Strings.                                                                *)
(***************************************************************************)
Alnum == {"x", "y", "c", "d"}

\* a presence check that accepts every string
has_alnum_any(s) == TRUE

\* re.search('[a-zA-Z0-9]+', s).group(0) inside try/except (TypeError,
\* AttributeError): TRUE when no exception is raised
has_alnum(s) == \E k \in 1..Len(s) : s[k] \in Alnum

\* Python's  needle in haystack  on strings
str_in(needle, haystack) ==
    \E k \in 0..(Len(haystack) - Len(needle)) :
        \A j \in 1..Len(needle) : haystack[k + j] = needle[j]

\* url[:7] == "http://" or url[:8] == "https://"
SchemeUrls == {"http://h", "https://h"}
has_scheme(url) == url \in SchemeUrls

(***************************************************************************)
(* What the network can give one probe.  The host's certificate either     *)
(* cannot be fetched or has some whole weeks left; curl either fails or    *)
(* delivers a response, whose header map is what header_function built.    *)
(***************************************************************************)
NoCert == [raises |-> TRUE, weeks |-> 0]
CertWeeks == {1, 2}
Certs == {NoCert} \cup {[raises |-> FALSE, weeks |-> w] : w \in CertWeeks}

\* the three digits header_function stored under "status"
OK200 == <<"2", "0", "0">>
Statuses == {OK200, <<"3", "0", "1">>}
Locations == {<<"c">>, <<"d">>}
ContentTypes == {"text/html; charset=utf-8"}
Bodies == {[text |-> <<"y", "x">>, utf8 |-> TRUE],
           [text |-> <<"y">>, utf8 |-> TRUE],
           [text |-> <<"y">>, utf8 |-> FALSE]}
NoBody == [text |-> <<>>, utf8 |-> TRUE]

\* a header map: a function from the lowercased names present to their values
HeaderMaps ==
    {[n \in {"status"} |-> s] : s \in Statuses}
    \cup {[n \in {"status", "location"} |-> IF n = "status" THEN s ELSE l] :
            s \in Statuses, l \in Locations}
    \cup {[n \in {"status", "content-type"} |-> IF n = "status" THEN s ELSE c] :
            s \in Statuses, c \in ContentTypes}
    \cup {[n \in {"location"} |-> l] : l \in Locations}

Responses ==
    {[cert |-> c, curl |-> "error", headers |-> <<>>, body |-> NoBody] : c \in Certs}
    \cup {[cert |-> c, curl |-> "ok", headers |-> h, body |-> b] :
            c \in Certs, h \in HeaderMaps, b \in Bodies}

(***************************************************************************)
(* test_fail, test_success (lines 137-150).  text_body and mail_body carry *)
(* the same message, with and without colour codes.                        *)
(***************************************************************************)
test_fail(message) == [success |-> FALSE, mail_body |-> message]

test_success == [success |-> TRUE, mail_body |-> <<"Test Success!">>]

\* how a call of perform_test ends: it returns a result, config_fail exits
\* the process, or an exception nobody catches leaves it
Return(result) == [kind |-> "return", result |-> result, message |-> ""]
ConfigFail(message) == [kind |-> "config_fail", result |-> test_success, message |-> message]
Raise(what) == [kind |-> "exception", result |-> test_success, message |-> what]

(***************************************************************************)
(* perform_test (lines 155-291).                                           *)
(***************************************************************************)
two_weeks == 2

\* a certificate check made whatever the scheme is
checks_certificate_always(prefix) == TRUE

\* line 165
checks_certificate(prefix) == prefix = "https://"

\* line 175: etime - now < two_weeks
cert_expiring(weeks) == weeks < two_weeks

\* lines 202-210
resolve_encoding(headers) ==
    IF "content-type" \in DOMAIN headers
        /\ headers["content-type"] = "text/html; charset=utf-8"
    THEN "utf-8"
    ELSE "iso-8859-1"

\* line 213: body.decode(encoding) raises on bytes the encoding does not have
decode_raises(body, encoding) == encoding = "utf-8" /\ ~body.utf8

\* lines 252-253 and 280-281
ExStringUndefined == "\"return string\" check specified but \"expected string\" is not defined!"
CanAddressUndefined == "\"redirect\" check specified but \"canonical address\" is not defined!"

\* lines 229-233
http_success(headers) ==
    IF headers["status"] # OK200
    THEN Return(test_fail(<<"HTTP status is: ", headers["status"]>>))
    ELSE Return(test_success)

\* lines 235-259
return_string(headers, responsebody, ex_string) ==
    IF headers["status"] # OK200
    THEN Return(test_fail(<<"HTTP status is: ", headers["status"]>>))
    ELSE IF ~has_alnum(ex_string)
    THEN ConfigFail(ExStringUndefined)
    ELSE IF ~str_in(ex_string, responsebody)
    THEN Return(test_fail(<<"Don't find expected string!">>))
    ELSE Return(test_success)

\* lines 261-287
redirect(headers, can_address) ==
    IF headers["status"][1] # "3"
    THEN Return(test_fail(<<"Response code is not a redirect: ", headers["status"]>>))
    ELSE IF "location" \notin DOMAIN headers
    THEN Return(test_fail(<<"Response code is a redirect but no Location header!">>))
    ELSE IF ~has_alnum(can_address)
    THEN ConfigFail(CanAddressUndefined)
    ELSE IF headers["location"] # can_address
    THEN Return(test_fail(<<"Redirect location is wrong: ", headers["location"]>>))
    ELSE Return(test_success)

\* lines 178-291: the request and the evaluation of the action
request_and_evaluate(action, ex_string, can_address, resp) ==
    IF resp.curl = "error"
    THEN Return(test_fail(<<"pycurl.error">>))
    ELSE IF decode_raises(resp.body, resolve_encoding(resp.headers))
    THEN Raise("UnicodeDecodeError")
    ELSE IF "status" \notin DOMAIN resp.headers
    THEN Return(test_fail(<<"Can't get HTTP response code!">>))
    ELSE CASE action = "http success" -> http_success(resp.headers)
           [] action = "return string" ->
                return_string(resp.headers, resp.body.text, ex_string)
           [] action = "redirect" -> redirect(resp.headers, can_address)
           [] OTHER -> ConfigFail("action not recognised!")

perform_test(prefix, action, ex_string, can_address, resp) ==
    IF checks_certificate(prefix)
    THEN IF resp.cert.raises
         THEN Raise("ssl.get_server_certificate")
         ELSE IF cert_expiring(resp.cert.weeks)
         THEN Return(test_fail(<<"certificate expires in ", ToString(resp.cert.weeks)>>))
         ELSE request_and_evaluate(action, ex_string, can_address, resp)
    ELSE request_and_evaluate(action, ex_string, can_address, resp)

(***************************************************************************)
(* The sites file.  A site is a dictionary: "name" and "urls" are always   *)
(* there, "expected string", "canonical address", "ipv4" and "ipv6" may be *)
(* missing.                                                                *)
(***************************************************************************)
Test(action, protocols) == [action |-> action, protocols |-> protocols]
UrlDef(url, tests) == [url |-> url, tests |-> tests]
OneTest(action, protocol) == <<UrlDef("h", <<Test(action, <<protocol>>)>>)>>

\* every kind of site, each tested on its own
SoloBodies ==
    { [urls |-> OneTest("http success", "TLS")],
      [urls |-> OneTest("http success", "TLS"), ipv4 |-> FALSE, ipv6 |-> FALSE],
      [urls |-> OneTest("return string", "no-TLS"), ipv6 |-> FALSE],
      ("expected string" :> <<"x">>) @@
          [urls |-> OneTest("return string", "no-TLS"), ipv4 |-> FALSE],
      ("canonical address" :> <<"c">>) @@
          [urls |-> OneTest("redirect", "no-TLS"), ipv6 |-> FALSE],
      ("canonical address" :> <<>>) @@
          [urls |-> OneTest("redirect", "TLS"), ipv4 |-> FALSE],
      [urls |-> OneTest("ping", "no-TLS"), ipv6 |-> FALSE],
      [urls |-> <<UrlDef("h", <<Test("http success", <<"no-TLS", "SSL">>)>>)>>,
       ipv6 |-> FALSE],
      [urls |-> <<UrlDef("h", <<>>), UrlDef("http://h", <<>>)>>] }

\* the sites that are tested together with other sites
PlainBodies ==
    { [urls |-> OneTest("http success", "no-TLS"), ipv6 |-> FALSE],
      [urls |-> OneTest("ping", "no-TLS"), ipv4 |-> FALSE, ipv6 |-> FALSE] }

\* the names of n sites, up to renaming: site k carries the index of the
\* first site that has its name
NameLists(n) ==
    {f \in [1..n -> 1..n] : \A k \in 1..n : f[k] <= k /\ f[f[k]] = f[k]}

\* lines 311-319
testipv4_of(site) == IF "ipv4" \in DOMAIN site THEN site["ipv4"] ELSE TRUE
\* an IPv6 toggle that follows the IPv4 one
testipv6_of_shared(site) == IF "ipv4" \in DOMAIN site THEN site["ipv4"] ELSE TRUE
testipv6_of(site) == IF "ipv6" \in DOMAIN site THEN site["ipv6"] ELSE TRUE

\* lines 301-309
ex_string_of(site) ==
    IF "expected string" \in DOMAIN site THEN site["expected string"] ELSE <<>>
can_address_of(site) ==
    IF "canonical address" \in DOMAIN site THEN site["canonical address"] ELSE <<>>

RECURSIVE SumSeq(_)
SumSeq(q) == IF q = <<>> THEN 0 ELSE Head(q) + SumSeq(Tail(q))

\* the number of perform_test calls a complete test_site(site) makes
ProbeCount(site) ==
    LET fams == (IF testipv4_of(site) THEN 1 ELSE 0) + (IF testipv6_of(site) THEN 1 ELSE 0)
        PerUrl(urldef) ==
            SumSeq([k \in 1..Len(urldef.tests) |-> Len(urldef.tests[k].protocols) * fams])
    IN SumSeq([k \in 1..Len(site.urls) |-> PerUrl(site.urls[k])])

SitesOf(n, Kinds) ==
    {[k \in 1..n |-> [name |-> names[k]] @@ bodies[k]] :
        names \in NameLists(n), bodies \in [1..n -> Kinds]}

SiteLists ==
    SitesOf(1, SoloBodies) \cup UNION {SitesOf(n, PlainBodies) : n \in 1..MaxSites}

Options == {<<FALSE, FALSE>>, <<TRUE, FALSE>>, <<TRUE, TRUE>>}

(***************************************************************************)
(* The start of a run: the sites file is loaded, nothing has been tested.  *)
(***************************************************************************)
NoFatal == [kind |-> "none", message |-> "", headers |-> <<>>]

\* no header is being received and no single call is being looked at
UnitIdle ==
    /\ hlines = <<>> /\ hpos = 0 /\ hprev = <<>> /\ hmap = <<>> /\ hstate = "idle"
    /\ probe = <<>> /\ verdict = <<>>
NoSite == [name |-> 0, tests |-> <<>>]

Init ==
    /\ sites \in SiteLists
    /\ \E o \in Options : mailto = o[1] /\ emailonlyfail = o[2]
    /\ pc = "first"
    /\ pass = "first"
    /\ i = 1
    /\ cur = 0
    /\ u = 0 /\ t = 0 /\ p = 0 /\ v = 0
    /\ buildme = NoSite
    /\ siteresults = <<>>
    /\ newresults = <<>>
    /\ restest_total = 0
    /\ siteresultssorted = <<>>
    /\ success_total = 0
    /\ fail_total = 0
    /\ mails = <<>>
    /\ printed = "none"
    /\ slept = 0
    /\ runs = [k \in 1..Len(sites) |-> 0]
    /\ reran = [k \in 1..Len(sites) |-> 0]
    /\ firstpass = <<>>
    /\ runlog = <<>>
    /\ lastlog = [k \in 1..Len(sites) |-> <<>>]
    /\ certchecks = {}
    /\ fatal = NoFatal
    /\ UnitIdle

inputs == <<sites, mailto, emailonlyfail>>
unit == <<hlines, hpos, hprev, hmap, hstate, probe, verdict>>
loopvars == <<u, t, p, v>>
summary == <<restest_total, siteresultssorted, success_total, fail_total>>
output == <<mails, printed>>

\* config_fail (lines 126-135): print or mail the error, then sys.exit()
config_fail(message, headers) ==
    /\ IF ~mailto
       THEN printed' = "config error" /\ mails' = mails
       ELSE mails' = Append(mails, <<"config error!">>) /\ printed' = printed
    /\ pc' = "exit"
    /\ fatal' = [kind |-> "config_fail", message |-> message, headers |-> headers]

\* an exception no handler catches: the interpreter prints a traceback and stops
uncaught(what) ==
    /\ pc' = "traceback"
    /\ fatal' = [kind |-> "exception", message |-> what, headers |-> <<>>]
    /\ UNCHANGED output

\* test_site that patches the earlier result of the slot instead of starting anew
EnterTestSite_patching(k) ==
    /\ cur' = k
    /\ buildme' = [name |-> sites[k].name,
                   tests |-> IF pass = "retry" THEN siteresults[i].tests ELSE <<>>]
    /\ u' = 1 /\ t' = 0 /\ p' = 0 /\ v' = 0
    /\ pc' = "urls"
    /\ runs' = [runs EXCEPT ![k] = @ + 1]
    /\ runlog' = <<>>

\* test_site is entered for sites[k] (lines 300-319)
EnterTestSite(k) ==
    /\ cur' = k
    /\ buildme' = [name |-> sites[k].name, tests |-> <<>>]
    /\ u' = 1 /\ t' = 0 /\ p' = 0 /\ v' = 0
    /\ pc' = "urls"
    /\ runs' = [runs EXCEPT ![k] = @ + 1]
    /\ runlog' = <<>>

\* line 378: the next site of the first pass
FirstPass ==
    /\ pc = "first"
    /\ i <= Len(sites)
    /\ EnterTestSite(i)
    /\ UNCHANGED <<inputs, unit, pass, i, siteresults, newresults, summary, output,
                   slept, reran, firstpass, lastlog, certchecks, fatal>>

\* lines 378-383: the first pass is over, count the sites to re-test
FirstPassDone ==
    /\ pc = "first"
    /\ i > Len(sites)
    /\ restest_total' = Cardinality({k \in 1..Len(siteresults) :
                                        siteresults[k].fail_count # 0})
    /\ firstpass' = siteresults
    /\ pc' = IF restest_total' > 0 THEN "sleep" ELSE "sort"
    /\ UNCHANGED <<inputs, unit, pass, i, cur, loopvars, buildme, siteresults, newresults,
                   siteresultssorted, success_total, fail_total, output, slept,
                   runs, reran, runlog, lastlog, certchecks, fatal>>

\* line 384, and the start of the comprehension of line 385
Sleep ==
    /\ pc = "sleep"
    /\ slept' = slept + 1
    /\ pass' = "retry"
    /\ i' = 1
    /\ newresults' = <<>>
    /\ pc' = "retry"
    /\ UNCHANGED <<inputs, unit, cur, loopvars, buildme, siteresults, summary, output,
                   runs, reran, firstpass, runlog, lastlog, certchecks, fatal>>

\* line 375: [x for x in sites if x["name"] == name][0]
\* a lookup that takes the last site of that name
site_named_last(name) ==
    CHOOSE k \in 1..Len(sites) :
        /\ sites[k].name = name
        /\ \A j \in (k + 1)..Len(sites) : sites[j].name # name

site_named(name) ==
    CHOOSE k \in 1..Len(sites) :
        /\ sites[k].name = name
        /\ \A j \in 1..(k - 1) : sites[j].name # name

\* check_result that re-tests whatever the fail_count is
CheckResult_always ==
    /\ pc = "retry"
    /\ i <= Len(siteresults)
    /\ EnterTestSite(site_named(siteresults[i].name))
    /\ reran' = [reran EXCEPT ![i] = @ + 1]
    /\ UNCHANGED <<i, newresults>>
    /\ UNCHANGED <<inputs, unit, pass, siteresults, summary, output, slept, firstpass,
                   lastlog, certchecks, fatal>>

\* check_result that waits before each re-test
CheckResult_sleeps ==
    /\ pc = "retry"
    /\ i <= Len(siteresults)
    /\ IF siteresults[i].fail_count = 0
       THEN /\ newresults' = Append(newresults, siteresults[i])
            /\ i' = i + 1
            /\ UNCHANGED <<pc, cur, loopvars, buildme, runs, reran, runlog, slept>>
       ELSE /\ EnterTestSite(site_named(siteresults[i].name))
            /\ reran' = [reran EXCEPT ![i] = @ + 1]
            /\ slept' = slept + 1
            /\ UNCHANGED <<i, newresults>>
    /\ UNCHANGED <<inputs, unit, pass, siteresults, summary, output, firstpass,
                   lastlog, certchecks, fatal>>

\* check_result (lines 368-375) for the next element of line 385
CheckResult ==
    /\ pc = "retry"
    /\ i <= Len(siteresults)
    /\ IF siteresults[i].fail_count = 0
       THEN /\ newresults' = Append(newresults, siteresults[i])
            /\ i' = i + 1
            /\ UNCHANGED <<pc, cur, loopvars, buildme, runs, reran, runlog>>
       ELSE /\ EnterTestSite(site_named(siteresults[i].name))
            /\ reran' = [reran EXCEPT ![i] = @ + 1]
            /\ UNCHANGED <<i, newresults>>
    /\ UNCHANGED <<inputs, unit, pass, siteresults, summary, output, slept, firstpass,
                   lastlog, certchecks, fatal>>

\* a retry pass that starts over while a site still fails
RetryDone_again ==
    /\ pc = "retry"
    /\ i > Len(siteresults)
    /\ siteresults' = newresults
    /\ IF \E k \in 1..Len(newresults) : newresults[k].fail_count # 0
       THEN pc' = "retry" /\ i' = 1 /\ newresults' = <<>>
       ELSE pc' = "sort" /\ i' = i /\ newresults' = newresults
    /\ UNCHANGED <<inputs, unit, pass, cur, loopvars, buildme, summary,
                   output, slept, runs, reran, firstpass, runlog, lastlog,
                   certchecks, fatal>>

\* line 385: the comprehension is complete and siteresults is rebound
RetryDone ==
    /\ pc = "retry"
    /\ i > Len(siteresults)
    /\ siteresults' = newresults
    /\ pc' = "sort"
    /\ UNCHANGED <<inputs, unit, pass, i, cur, loopvars, buildme, newresults, summary,
                   output, slept, runs, reran, firstpass, runlog, lastlog,
                   certchecks, fatal>>

(***************************************************************************)
(* test_site (lines 294-366), one loop header or loop body per action.     *)
(***************************************************************************)
site == sites[cur]
urldef == site.urls[u]
test == urldef.tests[t]
protocol == test.protocols[p]

IPVERS == <<"IPv4", "IPv6">>

\* lines 330-333
prefix_of(proto) == IF proto = "TLS" THEN "https://" ELSE "http://"

\* lines 356-359: the description of the test goes in front of the message
describe(ipver, url, action, proto, result) ==
    [result EXCEPT !.mail_body = <<ipver, url, action, proto>> \o @]

\* line 361
add_result(site_result, result) ==
    [site_result EXCEPT !.tests = @ \o <<result>>]

\* lines 363-366
count_results(site_result) ==
    [name |-> site_result.name,
     tests |-> site_result.tests,
     success_count |-> Cardinality({k \in 1..Len(site_result.tests) :
                                      site_result.tests[k].success}),
     fail_count |-> Cardinality({k \in 1..Len(site_result.tests) :
                                   ~site_result.tests[k].success})]

\* lines 321-324: the next urldef, and the check of its url
UrlLoop ==
    /\ pc = "urls"
    /\ u <= Len(site.urls)
    /\ IF has_scheme(urldef.url)
       THEN /\ config_fail("Do not specify protocol in url.", <<>>)
            /\ UNCHANGED t
       ELSE /\ t' = 1
            /\ pc' = "tests"
            /\ UNCHANGED <<output, fatal>>
    /\ UNCHANGED <<inputs, unit, pass, i, cur, u, p, v, buildme, siteresults, newresults,
                   summary, slept, runs, reran, firstpass, runlog, lastlog,
                   certchecks>>

\* lines 326-327: the next test of the urldef, or on to the next urldef
TestLoop ==
    /\ pc = "tests"
    /\ IF t <= Len(urldef.tests)
       THEN p' = 1 /\ pc' = "protocols" /\ u' = u
       ELSE u' = u + 1 /\ pc' = "urls" /\ p' = p
    /\ UNCHANGED <<inputs, unit, pass, i, cur, t, v, buildme, siteresults, newresults,
                   summary, output, slept, runs, reran, firstpass, runlog, lastlog,
                   certchecks, fatal>>

\* lines 329-335: the next protocol of the test, or on to the next test
ProtocolLoop ==
    /\ pc = "protocols"
    /\ IF p <= Len(test.protocols)
       THEN IF protocol \in {"TLS", "no-TLS"}
            THEN /\ v' = 1
                 /\ pc' = "ipvers"
                 /\ UNCHANGED <<t, output, fatal>>
            ELSE /\ config_fail("Supported protocols are \"TLS\" and \"no-TLS\".", <<>>)
                 /\ UNCHANGED <<t, v>>
       ELSE /\ t' = t + 1
            /\ pc' = "tests"
            /\ UNCHANGED <<v, output, fatal>>
    /\ UNCHANGED <<inputs, unit, pass, i, cur, u, p, buildme, siteresults, newresults,
                   summary, slept, runs, reran, firstpass, runlog, lastlog,
                   certchecks>>

\* lines 337-361: the next IP version: skipped, or one perform_test call
\* that meets one of the responses Resps
IpverLoopOver(Resps) ==
    /\ pc = "ipvers"
    /\ IF v > Len(IPVERS)
       THEN /\ p' = p + 1
            /\ pc' = "protocols"
            /\ UNCHANGED <<v, buildme, runlog, certchecks, output, fatal>>
       ELSE IF (v = 1 /\ ~testipv4_of(site)) \/ (v = 2 /\ ~testipv6_of(site))
       THEN /\ v' = v + 1
            /\ UNCHANGED <<p, pc, buildme, runlog, certchecks, output, fatal>>
       ELSE \E resp \in Resps :
            LET prefix == prefix_of(protocol)
                out == perform_test(prefix, test.action, ex_string_of(site),
                                    can_address_of(site), resp)
                result == describe(IPVERS[v], urldef.url, test.action, protocol,
                                   out.result)
            IN /\ certchecks' = IF checks_certificate(prefix)
                                THEN certchecks \cup {protocol}
                                ELSE certchecks
               /\ CASE out.kind = "return" ->
                        /\ buildme' = add_result(buildme, result)
                        /\ runlog' = Append(runlog, result)
                        /\ v' = v + 1
                        /\ UNCHANGED <<pc, output, fatal>>
                    [] out.kind = "config_fail" ->
                        /\ config_fail(out.message, resp.headers)
                        /\ UNCHANGED <<v, buildme, runlog>>
                    [] out.kind = "exception" ->
                        /\ uncaught(out.message)
                        /\ UNCHANGED <<v, buildme, runlog>>
               /\ p' = p
    /\ UNCHANGED <<inputs, unit, pass, i, cur, u, t, siteresults, newresults, summary,
                   slept, runs, reran, firstpass, lastlog>>

IpverLoop == IpverLoopOver(Responses)

\* lines 363-366, and the caller taking the value: line 378 or line 385
TestSiteReturn ==
    /\ pc = "urls"
    /\ u > Len(site.urls)
    /\ IF pass = "first"
       THEN /\ siteresults' = Append(siteresults, count_results(buildme))
            /\ pc' = "first"
            /\ UNCHANGED newresults
       ELSE /\ newresults' = Append(newresults, count_results(buildme))
            /\ pc' = "retry"
            /\ UNCHANGED siteresults
    /\ lastlog' = [lastlog EXCEPT ![i] = runlog]
    /\ i' = i + 1
    /\ UNCHANGED <<inputs, unit, pass, cur, loopvars, buildme, summary, output, slept,
                   runs, reran, firstpass, runlog, certchecks, fatal>>

(***************************************************************************)
(* The end of the script (lines 387-429).                                  *)
(***************************************************************************)
\* an insertion that puts x in front of the results with the same fail_count
insert_by_fail_strict(q, x) ==
    LET n == Cardinality({k \in 1..Len(q) : q[k].fail_count > x.fail_count})
    IN SubSeq(q, 1, n) \o <<x>> \o SubSeq(q, n + 1, Len(q))

\* where sorted(..., reverse=True) puts x among results already in order:
\* behind every result whose fail_count is not smaller
insert_by_fail(q, x) ==
    LET n == Cardinality({k \in 1..Len(q) : q[k].fail_count >= x.fail_count})
    IN SubSeq(q, 1, n) \o <<x>> \o SubSeq(q, n + 1, Len(q))

RECURSIVE sorted_by_fail(_)
\* line 388: sorted(results, key=fail_count, reverse=True), a stable sort
sorted_by_fail(q) ==
    IF q = <<>> THEN <<>>
    ELSE insert_by_fail(sorted_by_fail(SubSeq(q, 1, Len(q) - 1)), q[Len(q)])

\* line 388
Sort ==
    /\ pc = "sort"
    /\ siteresultssorted' = sorted_by_fail(siteresults)
    /\ pc' = "totals"
    /\ UNCHANGED <<inputs, unit, pass, i, cur, loopvars, buildme, siteresults, newresults,
                   restest_total, success_total, fail_total, output, slept, runs,
                   reran, firstpass, runlog, lastlog, certchecks, fatal>>

\* totals summed from the results of the first pass
Totals_firstpass ==
    /\ pc = "totals"
    /\ success_total' = SumSeq([k \in 1..Len(firstpass) |-> firstpass[k].success_count])
    /\ fail_total' = SumSeq([k \in 1..Len(firstpass) |-> firstpass[k].fail_count])
    /\ pc' = "report"
    /\ UNCHANGED <<inputs, unit, pass, i, cur, loopvars, buildme, siteresults, newresults,
                   restest_total, siteresultssorted, output, slept, runs, reran,
                   firstpass, runlog, lastlog, certchecks, fatal>>

\* lines 390-391
Totals ==
    /\ pc = "totals"
    /\ success_total' = SumSeq([k \in 1..Len(siteresults) |->
                                    siteresults[k].success_count])
    /\ fail_total' = SumSeq([k \in 1..Len(siteresults) |-> siteresults[k].fail_count])
    /\ pc' = "report"
    /\ UNCHANGED <<inputs, unit, pass, i, cur, loopvars, buildme, siteresults, newresults,
                   restest_total, siteresultssorted, output, slept, runs, reran,
                   firstpass, runlog, lastlog, certchecks, fatal>>

\* a report that mails the all-passed summary whatever --email-only-on-fail says
Report_ignores_option ==
    /\ pc = "report"
    /\ IF ~mailto
       THEN printed' = "summary" /\ mails' = mails
       ELSE /\ printed' = printed
            /\ mails' = IF fail_total > 0
                        THEN Append(mails, <<ToString(fail_total), " failing tests!">>)
                        ELSE Append(mails, <<"all ", ToString(success_total),
                                             " tests passed">>)
    /\ pc' = "done"
    /\ UNCHANGED <<inputs, unit, pass, i, cur, loopvars, buildme, siteresults, newresults,
                   summary, slept, runs, reran, firstpass, runlog, lastlog,
                   certchecks, fatal>>

\* lines 393-429
Report ==
    /\ pc = "report"
    /\ IF ~mailto
       THEN printed' = "summary" /\ mails' = mails
       ELSE /\ printed' = printed
            /\ mails' = IF fail_total > 0
                        THEN Append(mails, <<ToString(fail_total), " failing tests!">>)
                        ELSE IF ~emailonlyfail
                        THEN Append(mails, <<"all ", ToString(success_total),
                                             " tests passed">>)
                        ELSE mails
    /\ pc' = "done"
    /\ UNCHANGED <<inputs, unit, pass, i, cur, loopvars, buildme, siteresults, newresults,
                   summary, slept, runs, reran, firstpass, runlog, lastlog,
                   certchecks, fatal>>

Next ==
    \/ FirstPass
    \/ FirstPassDone
    \/ Sleep
    \/ CheckResult
    \/ RetryDone
    \/ UrlLoop
    \/ TestLoop
    \/ ProtocolLoop
    \/ IpverLoop
    \/ TestSiteReturn
    \/ Sort
    \/ Totals
    \/ Report

Spec == Init /\ [][Next]_vars

(***************************************************************************)
(* Properties of the retry orchestration.                                  *)
(***************************************************************************)
NamesUnique ==
    \A j, k \in 1..Len(sites) : sites[j].name = sites[k].name => j = k

\* line 385 has completed, or was skipped: siteresults holds the final results
AfterRetry == pc \in {"sort", "totals", "report", "done"}

Slots == 1..Len(firstpass)

\* C1: a site whose first pass has fail_count 0 is not tested a second time,
\* and its entry of the final results and of the sorted summary is its
\* first-pass result, whatever the other sites did.
C1_CleanSiteUntouched ==
    \A k \in Slots :
        firstpass[k].fail_count = 0 =>
            /\ reran[k] = 0
            /\ NamesUnique => runs[k] = 1
            /\ pc = "retry" /\ k <= Len(newresults) => newresults[k] = firstpass[k]
            /\ AfterRetry => siteresults[k] = firstpass[k]
            /\ pc \in {"totals", "report", "done"} =>
                 \E j \in 1..Len(siteresultssorted) :
                    siteresultssorted[j] = firstpass[k]

C1_Witness ==
    /\ pc = "done"
    /\ Len(sites) = 2
    /\ NamesUnique
    /\ firstpass[1].fail_count = 0
    /\ firstpass[1].success_count = 1
    /\ firstpass[2].fail_count = 1
    /\ slept = 1
    /\ siteresults[2].fail_count = 0

\* C2: a site whose first pass has failures is tested exactly once more; no
\* site is tested more than twice, also when the second run fails, and the
\* results of the retry pass are final.
C2_RetriedOnce ==
    /\ \A k \in 1..Len(sites) : reran[k] <= 1
    /\ NamesUnique => \A k \in 1..Len(sites) : runs[k] <= 2
    /\ AfterRetry =>
         \A k \in Slots :
            /\ reran[k] = IF firstpass[k].fail_count > 0 THEN 1 ELSE 0
            /\ NamesUnique => runs[k] = 1 + reran[k]

C2_Witness ==
    /\ pc = "done"
    /\ NamesUnique
    /\ \E k \in Slots :
         /\ firstpass[k].fail_count > 0
         /\ siteresults[k].fail_count > 0
         /\ runs[k] = 2

\* C3: no second run starts before every site has had its first run, and the
\* script sleeps once when some site failed in the first pass, never otherwise
\* and never once per failed site.
C3_GlobalBarrier ==
    /\ slept <= 1
    /\ (pass = "retry" \/ \E k \in 1..Len(sites) : reran[k] > 0 \/ runs[k] > 1) =>
         /\ Len(firstpass) = Len(sites)
         /\ \A k \in 1..Len(sites) : runs[k] >= 1
         /\ slept = 1
    /\ (pc = "retry" \/ AfterRetry) =>
         slept = IF \E k \in Slots : firstpass[k].fail_count > 0 THEN 1 ELSE 0

C3_Witness ==
    /\ pc = "done"
    /\ Len(sites) = 2
    /\ \A k \in Slots : firstpass[k].fail_count > 0
    /\ reran[1] = 1 /\ reran[2] = 1
    /\ slept = 1

\* C4: the final result of a re-tested slot is what its second run produced:
\* the tests are the outcomes of that run, in order, and the counts count
\* them; nothing of the first run is left in it.
C4_RetryReplaces ==
    AfterRetry =>
        \A k \in Slots :
            reran[k] = 1 =>
                /\ siteresults[k].tests = lastlog[k]
                /\ siteresults[k].success_count =
                     Cardinality({j \in 1..Len(lastlog[k]) : lastlog[k][j].success})
                /\ siteresults[k].fail_count =
                     Cardinality({j \in 1..Len(lastlog[k]) : ~lastlog[k][j].success})
                /\ NamesUnique => Len(siteresults[k].tests) = ProbeCount(sites[k])

C4_Witness ==
    /\ pc = "done"
    /\ \E k \in Slots :
         /\ reran[k] = 1
         /\ Len(firstpass[k].tests) = 2
         /\ ~firstpass[k].tests[1].success /\ firstpass[k].tests[2].success
         /\ siteresults[k].tests[1].success /\ ~siteresults[k].tests[2].success
         /\ siteresults[k].success_count = 1

(***************************************************************************)
(* Properties of the probes.                                               *)
(***************************************************************************)
Actions == {"http success", "return string", "redirect"}

\* the action and the message of a described result (lines 356-359)
action_of(result) == result.mail_body[3]
message_of(result) == SubSeq(result.mail_body, 5, Len(result.mail_body))

ValidSite(s) ==
    \A a \in 1..Len(s.urls) :
        /\ ~has_scheme(s.urls[a].url)
        /\ \A b \in 1..Len(s.urls[a].tests) :
             LET td == s.urls[a].tests[b]
             IN /\ td.action \in Actions
                /\ td.action = "return string" => has_alnum(ex_string_of(s))
                /\ td.action = "redirect" => has_alnum(can_address_of(s))
                /\ \A c \in 1..Len(td.protocols) : td.protocols[c] \in {"TLS", "no-TLS"}

\* C5: with a valid configuration no outcome of the network ends the run:
\* the probe is recorded as a failed test and the script goes on.
C5_ProbeNeverFatal ==
    (\A k \in 1..Len(sites) : ValidSite(sites[k])) => pc # "traceback"

MissingCompanion(s, action) ==
    \/ action = "return string" /\ ex_string_of(s) = <<>>
    \/ action = "redirect" /\ can_address_of(s) = <<>>

\* C6 as stated: a return-string test without expected string, or a redirect
\* test without canonical address, is never recorded as a test result.
C6_NeverPerTestFailure ==
    cur > 0 =>
        \A j \in 1..Len(buildme.tests) :
            ~MissingCompanion(sites[cur], action_of(buildme.tests[j]))

\* the failures perform_test returns before it looks at the companion field
EarlyFailures(action) ==
    {"certificate expires in ", "pycurl.error", "Can't get HTTP response code!"}
    \cup (IF action = "return string"
          THEN {"HTTP status is: "}
          ELSE {"Response code is not a redirect: ",
                "Response code is a redirect but no Location header!"})

\* C6, amended: the missing companion field is a configuration error once the
\* probe reaches the check of the field: status 200 for return string, a 3xx
\* status with a location header for redirect.  A probe that stops earlier is
\* recorded as a failed test; such a test is never recorded as a success or as
\* a content or location mismatch.
C6_LateConfigError ==
    /\ cur > 0 =>
         \A j \in 1..Len(buildme.tests) :
            LET r == buildme.tests[j]
            IN MissingCompanion(sites[cur], action_of(r)) =>
                 /\ ~r.success
                 /\ message_of(r)[1] \in EarlyFailures(action_of(r))
    /\ fatal.message = ExStringUndefined =>
         /\ pc = "exit"
         /\ test.action = "return string"
         /\ ~has_alnum(ex_string_of(site))
         /\ fatal.headers["status"] = OK200
    /\ fatal.message = CanAddressUndefined =>
         /\ pc = "exit"
         /\ test.action = "redirect"
         /\ ~has_alnum(can_address_of(site))
         /\ fatal.headers["status"][1] = "3"
         /\ "location" \in DOMAIN fatal.headers

C6_Witness ==
    /\ pc = "exit"
    /\ fatal.message = ExStringUndefined
    /\ pass = "retry"
    /\ MissingCompanion(sites[1], "return string")
    /\ Len(firstpass[1].tests) = 1
    /\ action_of(firstpass[1].tests[1]) = "return string"
    /\ message_of(firstpass[1].tests[1])[1] = "HTTP status is: "

\* C7 as stated: a run that tested an action outside the three recognised
\* ones never ends with the normal summary.
C7_UnknownActionFatal ==
    pc = "done" =>
        \A k \in 1..Len(siteresults) :
            \A j \in 1..Len(siteresults[k].tests) :
                action_of(siteresults[k].tests[j]) \in Actions

C8Shape(s) ==
    /\ Len(s.urls) = 1
    /\ Len(s.urls[1].tests) = 1
    /\ s.urls[1].tests[1] = Test("http success", <<"TLS">>)
    /\ testipv4_of(s) /\ testipv6_of(s)

\* C8 as stated: a site with one url, one http-success test over TLS and both
\* IP versions has three outcomes: the certificate check, then the IPv4 and
\* the IPv6 probe.
C8_ThreeOutcomes ==
    \A k \in Slots : C8Shape(sites[k]) => Len(firstpass[k].tests) = 3

FailCounts == UNION {[1..n -> 0..MaxFail] : n \in 1..MaxSortLen}

SortSite(k, f) ==
    [name |-> k, ipv6 |-> FALSE,
     urls |-> [j \in 1..f |-> UrlDef("h", <<Test("http success", <<"no-TLS">>)>>)]]

SortTests(f) ==
    [j \in 1..f |-> describe("IPv4", "h", "http success", "no-TLS",
                             test_fail(<<"pycurl.error">>))]

SortInit ==
    \E fc \in FailCounts :
        LET n == Len(fc)
            failed == {k \in 1..n : fc[k] > 0}
            last == IF failed = {} THEN n
                    ELSE CHOOSE k \in failed : \A j \in failed : j <= k
            results == [k \in 1..n |->
                            count_results([name |-> k, tests |-> SortTests(fc[k])])]
        IN /\ sites = [k \in 1..n |-> SortSite(k, fc[k])]
           /\ \E o \in Options : mailto = o[1] /\ emailonlyfail = o[2]
           /\ pc = "sort"
           /\ pass = IF failed = {} THEN "first" ELSE "retry"
           /\ i = n + 1
           /\ cur = last
           /\ u = fc[last] + 1
           /\ t = IF fc[last] = 0 THEN 0 ELSE 2
           /\ p = IF fc[last] = 0 THEN 0 ELSE 2
           /\ v = IF fc[last] = 0 THEN 0 ELSE 3
           /\ buildme = [name |-> last, tests |-> SortTests(fc[last])]
           /\ siteresults = results
           /\ newresults = IF failed = {} THEN <<>> ELSE results
           /\ restest_total = Cardinality(failed)
           /\ siteresultssorted = <<>>
           /\ success_total = 0
           /\ fail_total = 0
           /\ mails = <<>>
           /\ printed = "none"
           /\ slept = IF failed = {} THEN 0 ELSE 1
           /\ runs = [k \in 1..n |-> IF fc[k] > 0 THEN 2 ELSE 1]
           /\ reran = [k \in 1..n |-> IF fc[k] > 0 THEN 1 ELSE 0]
           /\ firstpass = results
           /\ runlog = SortTests(fc[last])
           /\ lastlog = [k \in 1..n |-> SortTests(fc[k])]
           /\ certchecks = {}
           /\ fatal = NoFatal
           /\ UnitIdle

SortNext == Sort \/ Totals \/ Report

SortSpec == SortInit /\ [][SortNext]_vars

\* C10: the sorted results are the final results ordered by fail_count
\* descending, and results with the same fail_count keep their order.
C10_StableDescending ==
    pc \in {"totals", "report", "done"} =>
        /\ Len(siteresultssorted) = Len(siteresults)
        /\ \A a \in 1..Len(siteresultssorted) :
             siteresultssorted[a] = siteresults[siteresultssorted[a].name]
        /\ \A a, b \in 1..Len(siteresultssorted) :
             a < b =>
                \/ siteresultssorted[a].fail_count > siteresultssorted[b].fail_count
                \/ /\ siteresultssorted[a].fail_count = siteresultssorted[b].fail_count
                   /\ siteresultssorted[a].name < siteresultssorted[b].name

C10_Witness ==
    /\ pc = "done"
    /\ Len(siteresults) = 4
    /\ [k \in 1..4 |-> siteresults[k].fail_count] = <<0, 2, 0, 1>>
    /\ [k \in 1..4 |-> siteresultssorted[k].name] = <<2, 4, 1, 3>>

(***************************************************************************)
(* Properties of the totals and of the report.                             *)
(***************************************************************************)
Passed(log) == Cardinality({j \in 1..Len(log) : log[j].success})
Failed(log) == Cardinality({j \in 1..Len(log) : ~log[j].success})

\* C11: the totals are the numbers of passed and of failed tests in the
\* latest run of every slot; a failure of the first pass that is gone after
\* the retry is not counted.
C11_TotalsFromFinal ==
    pc \in {"report", "done"} =>
        /\ success_total = SumSeq([k \in 1..Len(siteresults) |-> Passed(lastlog[k])])
        /\ fail_total = SumSeq([k \in 1..Len(siteresults) |-> Failed(lastlog[k])])

C11_Witness ==
    /\ pc = "done"
    /\ \E k \in Slots :
         /\ firstpass[k].fail_count > 0
         /\ siteresults[k].fail_count = 0
         /\ siteresults[k].success_count > 0
    /\ fail_total = 0
    /\ success_total > 0

\* C16: with a recipient, a finished run with failures has mailed the
\* summary with the number of failing tests, whatever --email-only-on-fail
\* says; a finished run without failures has mailed the summary exactly when
\* the option is not set; no run mails more than one message.
C16_MailDecision ==
    LET failures == SumSeq([k \in 1..Len(siteresults) |-> siteresults[k].fail_count])
    IN /\ Len(mails) <= 1
       /\ ~mailto => mails = <<>>
       /\ pc \notin {"done", "exit"} => mails = <<>>
       /\ pc = "done" /\ mailto =>
            IF failures > 0
            THEN mails = <<<<ToString(failures), " failing tests!">>>>
            ELSE IF emailonlyfail
            THEN mails = <<>>
            ELSE Len(mails) = 1 /\ mails[1][1] = "all "

C16_Witness ==
    /\ pc = "done"
    /\ mailto /\ emailonlyfail
    /\ fail_total = 1
    /\ mails = <<<<"1", " failing tests!">>>>

(***************************************************************************)
(* One perform_test call on its own.  The run is taken up where test_site  *)
(* is about to make the IPv4 call for the only test of the only site; the  *)
(* arguments and what the network gives are drawn from wider sets than in  *)
(* the whole run.                                                          *)
(***************************************************************************)
ProbeStatuses == Statuses \cup {<<"3", "0", "2">>, <<"4", "0", "4">>}
ProbeLocations == Locations \cup {<<"/">>}
ProbeContentTypes == ContentTypes \cup {"text/html"}
ProbeBodies == Bodies \cup {[text |-> <<"y", "-">>, utf8 |-> TRUE],
                            [text |-> <<" ">>, utf8 |-> TRUE]}

ProbeHeaderMaps ==
    {[n \in d |-> CASE n = "status" -> s
                    [] n = "location" -> l
                    [] OTHER -> c] :
        d \in SUBSET {"status", "location", "content-type"},
        s \in ProbeStatuses, l \in ProbeLocations, c \in ProbeContentTypes}

ProbeResponses ==
    {[cert |-> c, curl |-> "error", headers |-> <<>>, body |-> NoBody] : c \in Certs}
    \cup {[cert |-> c, curl |-> "ok", headers |-> h, body |-> b] :
            c \in Certs, h \in ProbeHeaderMaps, b \in ProbeBodies}

\* the "expected string" and the "canonical address" of the site
ProbeCompanions ==
    {<<e, <<"c">>>> : e \in {<<>>, <<"x">>, <<"-">>, <<" ">>}}
    \cup {<<<<"x">>, c>> : c \in {<<>>, <<"/">>}}

ProbeSite(action, proto, ex_string, can_address) ==
    ("expected string" :> ex_string) @@ ("canonical address" :> can_address) @@
        [name |-> 1, ipv6 |-> FALSE, urls |-> OneTest(action, proto)]

\* test_site stands before the IPv4 call of the only test of the only site s
InProbe(s) ==
    /\ sites = <<s>>
    /\ \E o \in Options : mailto = o[1] /\ emailonlyfail = o[2]
    /\ pc = "ipvers"
    /\ pass = "first"
    /\ i = 1
    /\ cur = 1
    /\ u = 1 /\ t = 1 /\ p = 1 /\ v = 1
    /\ buildme = [name |-> s.name, tests |-> <<>>]
    /\ siteresults = <<>>
    /\ newresults = <<>>
    /\ restest_total = 0
    /\ siteresultssorted = <<>>
    /\ success_total = 0
    /\ fail_total = 0
    /\ mails = <<>>
    /\ printed = "none"
    /\ slept = 0
    /\ runs = <<1>>
    /\ reran = <<0>>
    /\ firstpass = <<>>
    /\ runlog = <<>>
    /\ lastlog = <<<<>>>>
    /\ certchecks = {}
    /\ fatal = NoFatal

\* everything but the single call and the header map
main == <<inputs, pc, pass, i, cur, loopvars, buildme, siteresults,
          newresults, summary, output, slept, runs, reran, firstpass,
          runlog, lastlog, certchecks, fatal>>

ProbeInit ==
    \E action \in Actions \cup {"ping"}, proto \in {"TLS", "no-TLS"},
       comp \in ProbeCompanions, resp \in ProbeResponses :
        /\ InProbe(ProbeSite(action, proto, comp[1], comp[2]))
        /\ hlines = <<>> /\ hpos = 0 /\ hprev = <<>> /\ hmap = <<>>
        /\ hstate = "idle"
        /\ probe = [prefix |-> prefix_of(proto), action |-> action,
                    ex_string |-> ex_string_of(sites[1]),
                    can_address |-> can_address_of(sites[1]), resp |-> resp]
        /\ verdict = <<>>

\* lines 351-353: the call, up to the point where perform_test is left
PerformTest ==
    /\ pc = "ipvers"
    /\ verdict = <<>>
    /\ verdict' = perform_test(probe.prefix, probe.action, probe.ex_string,
                               probe.can_address, probe.resp)
    /\ UNCHANGED <<main, hlines, hpos, hprev, hmap, hstate, probe>>

ProbeNext == PerformTest

ProbeSpec == ProbeInit /\ [][ProbeNext]_vars

\* the call got as far as the evaluation of the action: the certificate
\* (if any was fetched) is fine, the transfer and the decoding went through
\* and a status was seen
Evaluated ==
    /\ verdict # <<>>
    /\ checks_certificate(probe.prefix) =>
         ~probe.resp.cert.raises /\ ~cert_expiring(probe.resp.cert.weeks)
    /\ probe.resp.curl = "ok"
    /\ ~decode_raises(probe.resp.body, resolve_encoding(probe.resp.headers))
    /\ "status" \in DOMAIN probe.resp.headers

ProbeStatus == probe.resp.headers["status"]

\* what the "return string" test owes for a non-empty expected string
ReturnStringOwed ==
    /\ verdict.kind = "return"
    /\ verdict.result.success <=>
         ProbeStatus = OK200 /\ str_in(probe.ex_string, probe.resp.body.text)
    /\ ProbeStatus # OK200 =>
         verdict.result.mail_body = <<"HTTP status is: ", ProbeStatus>>
    /\ ProbeStatus = OK200 /\ ~str_in(probe.ex_string, probe.resp.body.text) =>
         verdict.result.mail_body = <<"Don't find expected string!">>

\* C12: for a configured non-empty expected string the "return string"
\* test returns success exactly when the status is 200 and the string occurs
\* in the decoded body; any other status gives the failure naming the
\* status, and status 200 without the string gives "Don't find expected
\* string!".
C12_ReturnStringVerdict ==
    Evaluated /\ probe.action = "return string" /\ probe.ex_string # <<>>
        => ReturnStringOwed

\* the same verdict, for the expected strings that hold a letter or a digit
C12_VerdictForAlnum ==
    Evaluated /\ probe.action = "return string" /\ has_alnum(probe.ex_string)
        => ReturnStringOwed

C12_Reached ==
    /\ Evaluated /\ probe.action = "return string" /\ has_alnum(probe.ex_string)
    /\ verdict.kind = "return" /\ verdict.result.success

\* what the "redirect" test owes for a non-empty canonical address
RedirectOwed ==
    LET headers == probe.resp.headers
        is3xx == ProbeStatus[1] = "3"
        located == "location" \in DOMAIN headers
    IN /\ verdict.kind = "return"
       /\ verdict.result.success <=>
            is3xx /\ located /\ headers["location"] = probe.can_address
       /\ ~is3xx =>
            verdict.result.mail_body =
                <<"Response code is not a redirect: ", ProbeStatus>>
       /\ is3xx /\ ~located =>
            verdict.result.mail_body =
                <<"Response code is a redirect but no Location header!">>
       /\ is3xx /\ located /\ headers["location"] # probe.can_address =>
            verdict.result.mail_body =
                <<"Redirect location is wrong: ", headers["location"]>>

\* C13: for a configured non-empty canonical address the "redirect" test
\* returns success exactly when the status starts with 3, a location header
\* is there and its value equals the canonical address; otherwise it returns
\* one failure: not a redirect, else no Location header, else wrong location.
C13_RedirectVerdict ==
    Evaluated /\ probe.action = "redirect" /\ probe.can_address # <<>>
        => RedirectOwed

\* the same verdict, for the canonical addresses that hold a letter or a digit
C13_VerdictForAlnum ==
    Evaluated /\ probe.action = "redirect" /\ has_alnum(probe.can_address)
        => RedirectOwed

C13_Reached ==
    /\ Evaluated /\ probe.action = "redirect" /\ has_alnum(probe.can_address)
    /\ verdict.kind = "return" /\ verdict.result.success

\* C20: the companion field is missing only when it is empty: a "return
\* string" test evaluated at status 200 ends in the configuration error
\* exactly when the expected string is absent or empty, and a "redirect" test
\* evaluated at a 3xx status with a location header ends in it exactly when
\* the canonical address is absent or empty.
C20_EmptinessOnly ==
    /\ Evaluated /\ probe.action = "return string" /\ ProbeStatus = OK200 =>
         (verdict.kind = "config_fail" <=> probe.ex_string = <<>>)
    /\ Evaluated /\ probe.action = "redirect" /\ ProbeStatus[1] = "3"
         /\ "location" \in DOMAIN probe.resp.headers =>
         (verdict.kind = "config_fail" <=> probe.can_address = <<>>)

\* what the code decides by: a letter or a digit somewhere in the field
C20_AlnumOnly ==
    /\ Evaluated /\ probe.action = "return string" /\ ProbeStatus = OK200 =>
         (verdict.kind = "config_fail" <=> ~has_alnum(probe.ex_string))
    /\ Evaluated /\ probe.action = "redirect" /\ ProbeStatus[1] = "3"
         /\ "location" \in DOMAIN probe.resp.headers =>
         (verdict.kind = "config_fail" <=> ~has_alnum(probe.can_address))

C20_Reached ==
    /\ Evaluated /\ probe.action = "redirect" /\ ProbeStatus[1] = "3"
    /\ "location" \in DOMAIN probe.resp.headers
    /\ probe.can_address = <<"/">> /\ probe.resp.headers["location"] = <<"/">>
    /\ verdict.kind = "config_fail"

(***************************************************************************)
(* header_function (lines 80-113) on its own.  A header line is the        *)
(* sequence of its characters.  curl hands the lines of one response to    *)
(* the callback one by one; the map they fill is then evaluated by the     *)
(* IPv4 call of the only test of the only site.                            *)
(***************************************************************************)
MaxLines == 3

\* the usual status line
LineOK ==
    <<"H", "T", "T", "P", "/", "1", ".", "1", " ", "2", "0", "0", " ", "O", "K", "\r", "\n">>
\* HTTP/2 has no reason phrase
LineHTTP2 ==
    <<"H", "T", "T", "P", "/", "2", " ", "3", "0", "1">>
\* a status line with a colon in the reason phrase
LineColonReason ==
    <<"H", "T", "T", "P", "/", "1", ".", "0", " ", "4", "0", "4", " ", "a", ":", "b">>
\* a status line without a three-digit code
LineNoCode ==
    <<"H", "T", "T", "P", "/", "1", ".", "1", " ", "O", "K">>
\* a header
LineLocation ==
    <<"L", "o", "c", "a", "t", "i", "o", "n", ":", " ", "c", "\r", "\n">>
\* whitespace around the colon, upper case name
LineLOCATION ==
    <<"L", "O", "C", "A", "T", "I", "O", "N", " ", ":", "d", " ">>
\* the header some application servers add
LineStatusHeader ==
    <<"S", "t", "a", "t", "u", "s", ":", " ", "2", "0", "0", " ", "O", "K">>
\* no colon
LineNoColon ==
    <<"X", "-", "A", " ", "b">>
\* the blank line that ends the headers
LineBlank ==
    <<"\r", "\n">>

HeaderLines == {LineOK, LineHTTP2, LineColonReason, LineNoCode, LineLocation,
                LineLOCATION, LineStatusHeader, LineNoColon, LineBlank}

Digits == {"0", "1", "2", "3", "4", "5", "6", "7", "8", "9"}
Whitespace == {" ", "\t", "\n", "\r"}
Uppers == <<"A", "B", "C", "D", "E", "F", "G", "H", "I", "J", "K", "L", "M",
           "N", "O", "P", "Q", "R", "S", "T", "U", "V", "W", "X", "Y", "Z">>
Lowers == <<"a", "b", "c", "d", "e", "f", "g", "h", "i", "j", "k", "l", "m",
           "n", "o", "p", "q", "r", "s", "t", "u", "v", "w", "x", "y", "z">>

STATUS == <<"s", "t", "a", "t", "u", "s">>
LOCATION == <<"l", "o", "c", "a", "t", "i", "o", "n">>

\* line 87: re.search(r'\AHTTP/[123456789]', header_line[:6])
is_status_line(header_line) ==
    /\ Len(header_line) >= 6
    /\ SubSeq(header_line, 1, 5) = <<"H", "T", "T", "P", "/">>
    /\ header_line[6] \in Digits \ {"0"}

\* line 89: where [0123456789]{3} can match
digit_runs(header_line) ==
    {k \in 1..(Len(header_line) - 2) :
        \A j \in k..(k + 2) : header_line[j] \in Digits}

\* line 89: re.search(...).group(0), the leftmost match
three_digits(header_line) ==
    LET k == CHOOSE m \in digit_runs(header_line) :
                 \A n \in digit_runs(header_line) : m <= n
    IN SubSeq(header_line, k, k + 2)

\* line 95
has_colon(header_line) == \E k \in 1..Len(header_line) : header_line[k] = ":"

\* line 99: header_line.split(':', 1)
first_colon(header_line) ==
    CHOOSE k \in 1..Len(header_line) :
        /\ header_line[k] = ":"
        /\ \A j \in 1..(k - 1) : header_line[j] # ":"

RECURSIVE lstrip(_)
lstrip(str) ==
    IF str = <<>> \/ Head(str) \notin Whitespace THEN str ELSE lstrip(Tail(str))

RECURSIVE rstrip(_)
rstrip(str) ==
    IF str = <<>> \/ str[Len(str)] \notin Whitespace
    THEN str
    ELSE rstrip(SubSeq(str, 1, Len(str) - 1))

\* lines 104-105
strip(str) == rstrip(lstrip(str))

\* line 109
lower(str) ==
    [k \in 1..Len(str) |->
        IF \E n \in 1..Len(Uppers) : Uppers[n] = str[k]
        THEN Lowers[CHOOSE n \in 1..Len(Uppers) : Uppers[n] = str[k]]
        ELSE str[k]]

\* headers[key] = value
setitem(headers, key, value) ==
    [n \in DOMAIN headers \cup {key} |-> IF n = key THEN value ELSE headers[n]]

\* a callback that goes on to the colon handling after a status line
header_function_no_return(headers, header_line) ==
    LET first == IF is_status_line(header_line) /\ digit_runs(header_line) # {}
                 THEN setitem(headers, STATUS, three_digits(header_line))
                 ELSE headers
        c == first_colon(header_line)
    IN IF is_status_line(header_line) /\ digit_runs(header_line) = {}
       THEN [raised |-> TRUE, headers |-> headers]
       ELSE IF ~has_colon(header_line)
       THEN [raised |-> FALSE, headers |-> first]
       ELSE [raised |-> FALSE,
             headers |-> setitem(first,
                                 lower(strip(SubSeq(header_line, 1, c - 1))),
                                 strip(SubSeq(header_line, c + 1, Len(header_line))))]

\* a callback that records the lines without a colon too
header_function_keeps_all(headers, header_line) ==
    LET c == first_colon(header_line)
    IN IF is_status_line(header_line)
       THEN IF digit_runs(header_line) = {}
            THEN [raised |-> TRUE, headers |-> headers]
            ELSE [raised |-> FALSE,
                  headers |-> setitem(headers, STATUS, three_digits(header_line))]
       ELSE IF ~has_colon(header_line)
       THEN [raised |-> FALSE,
             headers |-> setitem(headers, lower(strip(header_line)), <<>>)]
       ELSE [raised |-> FALSE,
             headers |-> setitem(headers,
                                 lower(strip(SubSeq(header_line, 1, c - 1))),
                                 strip(SubSeq(header_line, c + 1, Len(header_line))))]

\* lines 80-113; the search at line 89 raises AttributeError when the status
\* line has no three digits in a row
header_function(headers, header_line) ==
    LET c == first_colon(header_line)
    IN IF is_status_line(header_line)
       THEN IF digit_runs(header_line) = {}
            THEN [raised |-> TRUE, headers |-> headers]
            ELSE [raised |-> FALSE,
                  headers |-> setitem(headers, STATUS, three_digits(header_line))]
       ELSE IF ~has_colon(header_line)
       THEN [raised |-> FALSE, headers |-> headers]
       ELSE [raised |-> FALSE,
             headers |-> setitem(headers,
                                 lower(strip(SubSeq(header_line, 1, c - 1))),
                                 strip(SubSeq(header_line, c + 1, Len(header_line))))]

\* the map as perform_test reads it: headers['status'], headers['location']
as_headers(headers) ==
    LET key == [status |-> STATUS, location |-> LOCATION]
    IN [n \in {m \in {"status", "location"} : key[m] \in DOMAIN headers} |->
            headers[key[n]]]

\* the sequences over S of length up to n
SeqsUpTo(S, n) == UNION {[1..m -> S] : m \in 0..n}

HeaderSite(action) ==
    ("canonical address" :> <<"c">>) @@
        [name |-> 1, ipv6 |-> FALSE, urls |-> OneTest(action, "no-TLS")]

\* lines 188-189: headers = {} and the callback is set
HeaderInit ==
    \E action \in {"http success", "redirect"},
       lines \in SeqsUpTo(HeaderLines, MaxLines) \ {<<>>} :
        /\ InProbe(HeaderSite(action))
        /\ hlines = lines
        /\ hpos = 0
        /\ hprev = <<>>
        /\ hmap = <<>>
        /\ hstate = "receiving"
        /\ probe = <<>>
        /\ verdict = <<>>

\* c.perform() (line 194) calls the callback with the next line; an exception
\* in the callback makes curl abort the transfer
HeaderLine ==
    /\ hstate = "receiving"
    /\ hpos < Len(hlines)
    /\ LET r == header_function(hmap, hlines[hpos + 1])
       IN /\ hpos' = hpos + 1
          /\ hprev' = hmap
          /\ hmap' = r.headers
          /\ hstate' = IF r.raised THEN "aborted" ELSE "receiving"
    /\ UNCHANGED <<main, hlines, probe, verdict>>

\* lines 193-291: c.perform() is over (pycurl.error if the transfer was
\* aborted) and the action is evaluated on the map
EvaluateHeaders ==
    /\ hstate = "aborted" \/ (hstate = "receiving" /\ hpos = Len(hlines))
    /\ LET site1 == sites[1]
           resp == [cert |-> NoCert,
                    curl |-> IF hstate = "aborted" THEN "error" ELSE "ok",
                    headers |-> IF hstate = "aborted" THEN <<>> ELSE as_headers(hmap),
                    body |-> NoBody]
       IN /\ probe' = [prefix |-> "http://",
                       action |-> site1.urls[1].tests[1].action,
                       ex_string |-> ex_string_of(site1),
                       can_address |-> can_address_of(site1), resp |-> resp]
          /\ verdict' = perform_test("http://", site1.urls[1].tests[1].action,
                                     ex_string_of(site1), can_address_of(site1),
                                     resp)
    /\ hstate' = "done"
    /\ UNCHANGED <<main, hlines, hpos, hprev, hmap>>

HeaderNext == HeaderLine \/ EvaluateHeaders

HeaderSpec == HeaderInit /\ [][HeaderNext]_vars

\* the latest line given to the callback
LastLine == hlines[hpos]

\* the status-code field of a status line: the three characters after the
\* first space, if they are digits
FirstSpace(header_line) ==
    CHOOSE k \in 1..Len(header_line) :
        header_line[k] = " " /\ \A j \in 1..(k - 1) : header_line[j] # " "
HasCode(header_line) ==
    /\ \E k \in 1..Len(header_line) : header_line[k] = " "
    /\ FirstSpace(header_line) + 3 <= Len(header_line)
    /\ \A j \in 1..3 : header_line[FirstSpace(header_line) + j] \in Digits
CodeField(header_line) ==
    SubSeq(header_line, FirstSpace(header_line) + 1, FirstSpace(header_line) + 3)

\* C14: a line that starts with HTTP/ and a digit 1-9 sets the status entry
\* to the line's three-digit status code, adds no other entry and leaves the
\* other entries as they were.
C14_StatusLine ==
    hpos > 0 /\ is_status_line(LastLine) /\ HasCode(LastLine) =>
        /\ DOMAIN hmap = DOMAIN hprev \cup {STATUS}
        /\ hmap[STATUS] = CodeField(LastLine)
        /\ \A n \in DOMAIN hprev \ {STATUS} : hmap[n] = hprev[n]

C14_Witness ==
    /\ hpos = 2 /\ hlines[1] = LineLocation /\ LastLine = LineColonReason
    /\ DOMAIN hmap = {LOCATION, STATUS}
    /\ hmap[STATUS] = <<"4", "0", "4">>

\* C15 as stated: a line without a colon leaves the header map unchanged.
C15_NoColonUnchanged ==
    hpos > 0 /\ ~has_colon(LastLine) => hmap = hprev

\* C15: a line without a colon that is not a status line leaves the header
\* map unchanged; a status line, which need not hold a colon, sets the status
\* entry.
C15_NoColonNoStatusUnchanged ==
    hpos > 0 /\ ~has_colon(LastLine) /\ ~is_status_line(LastLine) =>
        hmap = hprev

C15_Witness ==
    /\ hpos = 2 /\ hlines[1] = LineOK /\ LastLine = LineNoColon
    /\ DOMAIN hmap = {STATUS} /\ hmap = hprev

\* the status lines among the lines given so far that hold a status code
CodeLines == {k \in 1..hpos : is_status_line(hlines[k]) /\ HasCode(hlines[k])}
LatestCode ==
    CodeField(hlines[CHOOSE k \in CodeLines : \A j \in CodeLines : j <= k])

\* C18: the status entry, if present, is the three-digit code of the most
\* recent status line whatever other header lines came, and that code is
\* what the "http success" test compares against 200.
C18_StatusFromStatusLine ==
    /\ STATUS \in DOMAIN hmap => CodeLines # {} /\ hmap[STATUS] = LatestCode
    /\ hstate = "done" /\ probe.resp.curl = "ok" /\ CodeLines # {}
         /\ probe.action = "http success" =>
         /\ verdict.kind = "return"
         /\ verdict.result.success <=> LatestCode = OK200

\* the lines that write the status entry: status lines, and headers whose
\* name is "status" in any letter case
WritesStatus(header_line) ==
    \/ is_status_line(header_line) /\ HasCode(header_line)
    \/ /\ ~is_status_line(header_line)
       /\ has_colon(header_line)
       /\ lower(strip(SubSeq(header_line, 1, first_colon(header_line) - 1))) = STATUS

\* the status entry is there exactly when some line so far wrote it
C18_AnyStatusWriter ==
    STATUS \in DOMAIN hmap <=> \E k \in 1..hpos : WritesStatus(hlines[k])

C18_Reached ==
    /\ hstate = "done" /\ hlines = <<LineOK, LineStatusHeader>>
    /\ probe.action = "http success"
    /\ verdict = Return(test_fail(<<"HTTP status is: ",
                                    <<"2", "0", "0", " ", "O", "K">>>>))

(***************************************************************************)
(* test_site (lines 294-366) on sites with several urls, tests and         *)
(* protocols: the first pass over one such site.                           *)
(***************************************************************************)
MaxDeclared == 3

MatrixTests ==
    {Test("http success", <<"TLS">>), Test("http success", <<"no-TLS", "TLS">>),
     Test("redirect", <<"no-TLS">>), Test("redirect", <<"TLS", "no-TLS">>)}

\* the number of (test, protocol) entries a list of tests declares
Declared(tests) ==
    SumSeq([b \in 1..Len(tests) |-> Len(tests[b].protocols)])

\* one or two urldefs that declare up to MaxDeclared entries together
MatrixUrls ==
    LET tests == {x \in SeqsUpTo(MatrixTests, MaxDeclared) :
                    Declared(x) <= MaxDeclared}
    IN {<<UrlDef("h", x)>> : x \in tests}
       \cup {<<UrlDef("h", xy[1]), UrlDef("g", xy[2])>> :
               xy \in {z \in tests \X tests :
                         Declared(z[1]) + Declared(z[2]) <= MaxDeclared}}

MatrixSites ==
    {("canonical address" :> <<"c">>) @@ [name |-> 1, urls |-> q] :
        q \in MatrixUrls}
    \cup {("canonical address" :> <<"c">>) @@
          [name |-> 1, urls |-> q, ipv4 |-> b4, ipv6 |-> b6] :
            q \in MatrixUrls, b4 \in BOOLEAN, b6 \in BOOLEAN}

\* the transfer fails, or a 200 comes back from a host with a good certificate
MatrixResponses ==
    {r \in Responses :
        /\ r.cert = [raises |-> FALSE, weeks |-> two_weeks]
        /\ r.curl = "ok" => /\ DOMAIN r.headers = {"status"}
                            /\ r.headers["status"] = OK200
                            /\ r.body = [text |-> <<"y">>, utf8 |-> TRUE]}

MatrixInit ==
    /\ sites \in {<<s>> : s \in MatrixSites}
    /\ mailto = FALSE /\ emailonlyfail = FALSE
    /\ pc = "first"
    /\ pass = "first"
    /\ i = 1
    /\ cur = 0
    /\ u = 0 /\ t = 0 /\ p = 0 /\ v = 0
    /\ buildme = NoSite
    /\ siteresults = <<>>
    /\ newresults = <<>>
    /\ restest_total = 0
    /\ siteresultssorted = <<>>
    /\ success_total = 0
    /\ fail_total = 0
    /\ mails = <<>>
    /\ printed = "none"
    /\ slept = 0
    /\ runs = <<0>>
    /\ reran = <<0>>
    /\ firstpass = <<>>
    /\ runlog = <<>>
    /\ lastlog = <<<<>>>>
    /\ certchecks = {}
    /\ fatal = NoFatal
    /\ UnitIdle

MatrixIpverLoop == IpverLoopOver(MatrixResponses)

MatrixNext ==
    \/ FirstPass
    \/ UrlLoop
    \/ TestLoop
    \/ ProtocolLoop
    \/ MatrixIpverLoop
    \/ TestSiteReturn
    \/ FirstPassDone

MatrixSpec == MatrixInit /\ [][MatrixNext]_vars

RECURSIVE Flatten(_)
Flatten(qq) == IF qq = <<>> THEN <<>> ELSE Head(qq) \o Flatten(Tail(qq))

\* a toggle of the site, on when the site does not give it
Toggle(s, key) == IF key \in DOMAIN s THEN s[key] ELSE TRUE

Families(s) ==
    (IF Toggle(s, "ipv4") THEN <<"IPv4">> ELSE <<>>)
        \o (IF Toggle(s, "ipv6") THEN <<"IPv6">> ELSE <<>>)

\* the probes a site declares: urls, then tests, then protocols, then the
\* enabled IP families, IPv4 first
Expand(s) ==
    LET fams == Families(s)
    IN Flatten([a \in 1..Len(s.urls) |->
         Flatten([b \in 1..Len(s.urls[a].tests) |->
           Flatten([c \in 1..Len(s.urls[a].tests[b].protocols) |->
             [d \in 1..Len(fams) |->
                 <<fams[d], s.urls[a].url, s.urls[a].tests[b].action,
                   s.urls[a].tests[b].protocols[c]>>]])])])

\* which probe each result of a site result describes
Described(tests) == [k \in 1..Len(tests) |-> SubSeq(tests[k].mail_body, 1, 4)]

\* C17: the result of a site holds one outcome for each (url, test,
\* protocol, enabled IP family), in the nested order urls, tests, protocols,
\* families with IPv4 before IPv6, and the counts add up to their number; a
\* site with both families off has no result, both counts 0, and is not
\* counted for the retry.
C17_MatrixExpansion ==
    LET expected == Expand(sites[1])
        sofar == Described(buildme.tests)
    IN /\ Len(siteresults) <= 1
       /\ pc \in {"urls", "tests", "protocols", "ipvers"} =>
            /\ Len(sofar) <= Len(expected)
            /\ sofar = SubSeq(expected, 1, Len(sofar))
       /\ Len(siteresults) = 1 =>
            /\ Described(siteresults[1].tests) = expected
            /\ siteresults[1].success_count + siteresults[1].fail_count
                   = Len(expected)
            /\ ~Toggle(sites[1], "ipv4") /\ ~Toggle(sites[1], "ipv6") =>
                 /\ siteresults[1].tests = <<>>
                 /\ siteresults[1].success_count = 0
                 /\ siteresults[1].fail_count = 0
                 /\ restest_total = 0
                 /\ pc # "sleep"

\* two urls, the first with a test over two protocols and both families on
C17_Witness ==
    /\ pc = "sleep"
    /\ Len(sites[1].urls) = 2
    /\ Len(siteresults[1].tests) = 6
    /\ Described(siteresults[1].tests) =
         << <<"IPv4", "h", "redirect", "TLS">>, <<"IPv6", "h", "redirect", "TLS">>,
            <<"IPv4", "h", "redirect", "no-TLS">>, <<"IPv6", "h", "redirect", "no-TLS">>,
            <<"IPv4", "g", "http success", "TLS">>,
            <<"IPv6", "g", "http success", "TLS">> >>
    /\ siteresults[1].fail_count = 6

\* a site with several declared tests and both families off goes on to the
\* sort with no result
C17_WitnessOff ==
    /\ pc = "sort" /\ Len(siteresults) = 1
    /\ ~Toggle(sites[1], "ipv4") /\ ~Toggle(sites[1], "ipv6")
    /\ Len(sites[1].urls) = 2 /\ Len(sites[1].urls[1].tests) = 2
    /\ siteresults[1].tests = <<>>

\* the result is one that test_site gives for the site s
ResultOf(result, s) ==
    /\ result.name = s.name
    /\ Described(result.tests) = Expand(s)
    /\ result.success_count + result.fail_count = Len(result.tests)

FirstNamed(k) ==
    CHOOSE f \in 1..k :
        sites[f].name = sites[k].name
            /\ \A j \in 1..(f - 1) : sites[j].name # sites[k].name

====
